---- MODULE Spec2Model ----
(***************************************************************************)
(* Model of the automerge-repo sync worker:                                *)
(*   - CloudflareWebSocketAdapter (the Peer Relay),                        *)
(*   - SyncServer (the Session Host, a Durable Object),                    *)
(*   - R2StorageAdapter (the Storage Adapter).                             *)
(* Spec      : the Session Host driving one Relay.                         *)
(* SpecStore : the Storage Adapter over one bucket, with its asynchronous  *)
(*             range operations interleaved with single-key operations.    *)
(* SpecKey   : keyToString / stringToKey as pure functions.                *)
(* Strings that the code takes apart (storage keys) are sequences of       *)
(* one-character strings; identifiers that are only compared are strings.  *)
(***************************************************************************)
EXTENDS Integers, Sequences, FiniteSets, TLC

VARIABLES
  repo,          \* SyncServer.repo is non-null
  adapter,       \* SyncServer.adapter is non-null
  built,         \* how many times initializeRepo constructed the adapter and the Repo
  waiter,        \* the whenReady() call: idle, polling or resolved
  connections,   \* adapter.connections: a Map in insertion order, as a sequence of records
  isConnected,   \* adapter.isConnected
  peerId,        \* adapter.peerId (NetworkAdapter), Undefined until connect()
  peerMetadata,  \* adapter.peerMetadata
  readyState,    \* the state of every transport the host has created
  lastOp,        \* the handler that ran last and its inputs
  out,           \* what the last handler did to the outside, in order
  bucket,        \* the R2 bucket: flat key -> data, on the keys that hold an object
  lr,            \* the loadRange call in flight
  rr,            \* the removeRange call in flight
  sinceRemove,   \* the flat keys written since the last removeRange call began
  lrAfter,       \* the loadRange call began after removeRange of the same prefix completed
  kIn,           \* SpecKey: the key given
  kFlat,         \* SpecKey: keyToString(kIn)
  kOut,          \* SpecKey: stringToKey(kFlat)
  kPc            \* SpecKey: position

relayVars == <<repo, adapter, built, waiter, connections, isConnected, peerId,
               peerMetadata, readyState, lastOp, out>>
storeVars == <<bucket, lr, rr, sinceRemove, lrAfter>>
keyVars == <<kIn, kFlat, kOut, kPc>>
vars == <<relayVars, storeVars, keyVars>>

(***************************************************************************)
(* Bounds and input sets                                                   *)
(***************************************************************************)
\* transports the host accepts in one run
MaxWs == 2

\* JavaScript's undefined and null, and the empty object literal
Undefined == "undefined"
Null == "null"
EmptyObject == "{}"

\* Peer identities of clients and of the relay.  PeerId is a non-empty string:
\* the code tests identities for truthiness (lines 92, 149, 163).
PeerIds == {"A", "B"}
SelfIds == {"S"}
Metadatas == {"m"}
SelfMetadatas == {"ms"}

WsIds == 1..MaxWs

READY_STATE_OPEN == "OPEN"

\* A frame (JoinMessage | PeerMessage | Message) with the fields the relay reads
Frame(type, senderId, targetId, meta, version) ==
  [type |-> type, senderId |-> senderId, targetId |-> targetId,
   peerMetadata |-> meta, selectedProtocolVersion |-> version]

NoFrame == Frame(Undefined, Undefined, Undefined, Undefined, Undefined)

JoinFrames ==
  { Frame("join", s, Undefined, m, Undefined) :
      s \in PeerIds, m \in Metadatas \cup {Undefined} }

\* frames of any other type arriving from a client
DataFramesIn ==
  { Frame("sync", s, t, Undefined, Undefined) : s \in PeerIds, t \in SelfIds }

\* messages the Repo hands to send(): addressed to a peer, or with no targetId
MessagesOut ==
  { Frame("sync", s, t, Undefined, Undefined) :
      s \in SelfIds, t \in PeerIds \cup {Undefined} }

\* cbor.encode / cbor.decode: bytes are either the encoding of a frame or
\* bytes that decode to nothing (decode throws)
cborEncode(m) == [tag |-> "cbor", body |-> m]
Garbage == [tag |-> "garbage", body |-> NoFrame]
cborThrows(buffer) == buffer.tag # "cbor"
cborDecode(buffer) == buffer.body

\* a WebSocket message event carries text or an ArrayBuffer
MessagesIn ==
  { [isString |-> s, bytes |-> b] :
      s \in BOOLEAN,
      b \in {Garbage} \cup { cborEncode(f) : f \in JoinFrames \cup DataFramesIn } }

\* entries of out
Sent(ws, bytes) == [kind |-> "send", ws |-> ws, name |-> "", bytes |-> bytes]
Emitted(name, payload) ==
  [kind |-> "emit", ws |-> 0, name |-> name, bytes |-> cborEncode(payload)]
Closed(ws) == [kind |-> "close", ws |-> ws, name |-> "", bytes |-> Garbage]
Logged(ws) == [kind |-> "console.error", ws |-> ws, name |-> "", bytes |-> Garbage]
Removed(ws) == [kind |-> "removeConnection", ws |-> ws, name |-> "", bytes |-> Garbage]
\* an exception leaving the handler
Thrown(ws) == [kind |-> "throw", ws |-> ws, name |-> "", bytes |-> Garbage]

(***************************************************************************)
(* CloudflareWebSocketAdapter                                              *)
(***************************************************************************)
\* JavaScript truthiness of the values a peer id or metadata field can hold
Truthy(v) == v \notin {Undefined, Null, ""}

\* Map.has / Map.get / Map.set / Map.delete on the insertion-ordered Map
MapHas(conns, ws) == \E i \in 1..Len(conns) : conns[i].ws = ws
MapGet(conns, ws) == conns[CHOOSE i \in 1..Len(conns) : conns[i].ws = ws]
MapSet(conns, ws, rec) ==
  IF MapHas(conns, ws)
    THEN [i \in 1..Len(conns) |-> IF conns[i].ws = ws THEN rec ELSE conns[i]]
    ELSE Append(conns, rec)
MapDelete(conns, ws) == SelectSeq(conns, LAMBDA c : c.ws # ws)

\* the adapter's fields as one value
Adapter ==
  [connections |-> connections, isConnected |-> isConnected,
   peerId |-> peerId, peerMetadata |-> peerMetadata]

addConnection(a, ws) ==
  [a EXCEPT !.connections =
     MapSet(a.connections, ws, [ws |-> ws, peerId |-> Null, peerMetadata |-> Undefined])]

\* mutant: the readiness flag is cleared on every removal
removeConnection_clearsAlways(a, ws) ==
  [a EXCEPT !.connections = MapDelete(a.connections, ws), !.isConnected = FALSE]

\* mutant: the record is not deleted
removeConnection_keepsRecord(a, ws) ==
  [a EXCEPT !.isConnected = IF Len(a.connections) = 0 THEN FALSE ELSE a.isConnected]

removeConnection(a, ws) ==
  LET conns == MapDelete(a.connections, ws)
  IN  [a EXCEPT !.connections = conns,
                !.isConnected = IF Len(conns) = 0 THEN FALSE ELSE a.isConnected]

\* lines 75-80: the message as a Uint8Array
toBuffer(message) == message.bytes

\* mutant: the reply echoes the joining peer's metadata instead of the relay's
handleJoin_echoesMetadata(a, ws, joinMsg) ==
  LET conn == [ws |-> ws, peerId |-> joinMsg.senderId,
               peerMetadata |-> joinMsg.peerMetadata]
      reply == IF Truthy(a.peerId)
                 THEN <<Sent(ws, cborEncode(Frame("peer", a.peerId, joinMsg.senderId,
                                                   joinMsg.peerMetadata, "1")))>>
                 ELSE <<>>
      candidate == Frame("peer-candidate", joinMsg.senderId, Undefined,
                         IF Truthy(joinMsg.peerMetadata)
                           THEN joinMsg.peerMetadata ELSE EmptyObject,
                         Undefined)
  IN  [a |-> [a EXCEPT !.connections = MapSet(a.connections, ws, conn)],
       out |-> reply \o <<Emitted("peer-candidate", candidate)>>]

\* mutant: the notification is emitted before the reply is written, with the
\* join's metadata as it came
handleJoin_notifiesFirst(a, ws, joinMsg) ==
  LET conn == [ws |-> ws, peerId |-> joinMsg.senderId,
               peerMetadata |-> joinMsg.peerMetadata]
      reply == IF Truthy(a.peerId)
                 THEN <<Sent(ws, cborEncode(Frame("peer", a.peerId, joinMsg.senderId,
                                                   a.peerMetadata, "1")))>>
                 ELSE <<>>
      candidate == Frame("peer-candidate", joinMsg.senderId, Undefined,
                         joinMsg.peerMetadata, Undefined)
  IN  [a |-> [a EXCEPT !.connections = MapSet(a.connections, ws, conn)],
       out |-> <<Emitted("peer-candidate", candidate)>> \o reply]

\* lines 86-108: the join branch
handleJoin(a, ws, joinMsg) ==
  LET conn == [ws |-> ws, peerId |-> joinMsg.senderId,
               peerMetadata |-> joinMsg.peerMetadata]
      reply == IF Truthy(a.peerId)
                 THEN <<Sent(ws, cborEncode(Frame("peer", a.peerId, joinMsg.senderId,
                                                   a.peerMetadata, "1")))>>
                 ELSE <<>>
      candidate == Frame("peer-candidate", joinMsg.senderId, Undefined,
                         IF Truthy(joinMsg.peerMetadata)
                           THEN joinMsg.peerMetadata ELSE EmptyObject,
                         Undefined)
  IN  [a |-> [a EXCEPT !.connections = MapSet(a.connections, ws, conn)],
       out |-> reply \o <<Emitted("peer-candidate", candidate)>>]

\* mutant: no catch around the decode
handleDecoded_noCatch(a, ws, buffer) ==
  IF cborThrows(buffer)
    THEN [a |-> a, out |-> <<Thrown(ws)>>]
    ELSE LET decoded == cborDecode(buffer)
         IN  IF decoded.type = "join"
               THEN handleJoin(a, ws, decoded)
               ELSE [a |-> a, out |-> <<Emitted("message", decoded)>>]

\* lines 73-118: the try block
handleDecoded(a, ws, buffer) ==
  IF cborThrows(buffer)
    THEN [a |-> a, out |-> <<Logged(ws)>>]
    ELSE LET decoded == cborDecode(buffer)
         IN  IF decoded.type = "join"
               THEN handleJoin(a, ws, decoded)
               ELSE [a |-> a, out |-> <<Emitted("message", decoded)>>]

\* lines 120-125
markConnected(a) ==
  IF ~a.isConnected /\ Truthy(a.peerId) /\ Len(a.connections) > 0
    THEN [a EXCEPT !.isConnected = TRUE]
    ELSE a

\* mutant: no early return for a transport without a record
handleMessage_noGuard(a, ws, message) ==
  LET r == handleDecoded(a, ws, toBuffer(message))
  IN  [a |-> markConnected(r.a), out |-> r.out]

handleMessage(a, ws, message) ==
  IF ~MapHas(a.connections, ws)
    THEN [a |-> a, out |-> <<>>]
    ELSE LET r == handleDecoded(a, ws, toBuffer(message))
         IN  [a |-> markConnected(r.a), out |-> r.out]

connect(a, id, meta) ==
  [a EXCEPT !.peerId = id,
            !.peerMetadata = meta,
            !.isConnected = IF Len(a.connections) > 0 THEN TRUE ELSE a.isConnected]

\* mutant: the identity of the connection is not compared
unicastTargets_anyOpen(conns, rs, targetId) ==
  LET hits == SelectSeq(conns, LAMBDA c : rs[c.ws] = READY_STATE_OPEN)
  IN  IF Len(hits) = 0 THEN <<>> ELSE <<hits[1]>>

\* mutant: the last matching connection in Map order is written to
unicastTargets_lastMatch(conns, rs, targetId) ==
  LET hits == SelectSeq(conns, LAMBDA c :
                c.peerId = targetId /\ rs[c.ws] = READY_STATE_OPEN)
  IN  IF Len(hits) = 0 THEN <<>> ELSE <<hits[Len(hits)]>>

\* lines 151-158: the first connection, in Map order, of the target that is open
unicastTargets(conns, rs, targetId) ==
  LET hits == SelectSeq(conns, LAMBDA c :
                c.peerId = targetId /\ rs[c.ws] = READY_STATE_OPEN)
  IN  IF Len(hits) = 0 THEN <<>> ELSE <<hits[1]>>

\* mutant: connections without an identity are written to as well
broadcastTargets_unjoinedToo(conns, rs) ==
  SelectSeq(conns, LAMBDA c : rs[c.ws] = READY_STATE_OPEN)

\* lines 162-166: every connection with an identity that is open
broadcastTargets(conns, rs) ==
  SelectSeq(conns, LAMBDA c : Truthy(c.peerId) /\ rs[c.ws] = READY_STATE_OPEN)

\* mutant: a unicast that finds no connection is broadcast instead
send_fallsBackToBroadcast(a, rs, message) ==
  LET targetId == message.targetId
      hits == IF Truthy(targetId)
                THEN unicastTargets(a.connections, rs, targetId)
                ELSE <<>>
      to == IF Len(hits) > 0 THEN hits ELSE broadcastTargets(a.connections, rs)
  IN  [i \in 1..Len(to) |-> Sent(to[i].ws, cborEncode(message))]

\* send(message): the frames written, in order
send(a, rs, message) ==
  LET targetId == message.targetId
      to == IF Truthy(targetId)
              THEN unicastTargets(a.connections, rs, targetId)
              ELSE broadcastTargets(a.connections, rs)
  IN  [i \in 1..Len(to) |-> Sent(to[i].ws, cborEncode(message))]

\* disconnect(): the transports closed, then the adapter's fields
disconnectCloses(a, rs) ==
  LET open == SelectSeq(a.connections, LAMBDA c : rs[c.ws] = READY_STATE_OPEN)
  IN  [i \in 1..Len(open) |-> Closed(open[i].ws)]

\* mutant: the records are not cleared
disconnect_keepsRecords(a) == [a EXCEPT !.isConnected = FALSE]

\* mutant: the readiness flag is not cleared
disconnect_keepsFlag(a) == [a EXCEPT !.connections = <<>>]

disconnect(a) == [a EXCEPT !.connections = <<>>, !.isConnected = FALSE]

isReady(a) == a.isConnected /\ a.peerId # Undefined

IsReady == isReady(Adapter)

\* whenReady(): resolved at once when ready, otherwise an interval is set
whenReady(a) == IF isReady(a) THEN "resolved" ELSE "polling"

\* mutant: the interval callback resolves without looking at isReady()
pollTick_resolvesAlways(a, w) == "resolved"

\* lines 202-207: one run of the interval callback
pollTick(a, w) == IF isReady(a) THEN "resolved" ELSE w

(***************************************************************************)
(* R2StorageAdapter                                                        *)
(***************************************************************************)
\* longest key and longest segment that SpecKey feeds to the conversions
MaxSegs == 2
MaxSegLen == 2

Sep == "/"
Chars == {"a", Sep}
Segments == UNION { [1..n -> Chars] : n \in 0..MaxSegLen }
KeyInputs == UNION { [1..n -> Segments] : n \in 0..MaxSegs }

\* Array.prototype.join('/')
RECURSIVE keyToString(_)
keyToString(key) ==
  IF Len(key) = 0 THEN <<>>
  ELSE IF Len(key) = 1 THEN key[1]
  ELSE key[1] \o <<Sep>> \o keyToString(Tail(key))

\* String.prototype.split('/'): cur is the segment being read
RECURSIVE splitFrom(_, _)
splitFrom(s, cur) ==
  IF Len(s) = 0 THEN <<cur>>
  ELSE IF Head(s) = Sep THEN <<cur>> \o splitFrom(Tail(s), <<>>)
  ELSE splitFrom(Tail(s), Append(cur, Head(s)))

\* mutant: empty segments are dropped
stringToKey_dropsEmpty(s) == SelectSeq(splitFrom(s, <<>>), LAMBDA seg : Len(seg) > 0)

stringToKey(s) == splitFrom(s, <<>>)

\* String.prototype.startsWith / endsWith
startsWith(s, prefix) ==
  Len(prefix) <= Len(s) /\ SubSeq(s, 1, Len(prefix)) = prefix
endsWith(s, c) == Len(s) > 0 /\ s[Len(s)] = c

\* mutant: the prefix is listed without the trailing separator
loadRangeListOptions_bare(prefix) == prefix

\* mutant: the separator is appended even when the prefix ends with one
removeRangeListOptions_alwaysAppends(prefix) == prefix \o <<Sep>>

\* lines 63-65 and 86-88: the prefix handed to bucket.list
loadRangeListOptions(prefix) ==
  prefix \o (IF endsWith(prefix, Sep) THEN <<>> ELSE <<Sep>>)

removeRangeListOptions(prefix) ==
  prefix \o (IF endsWith(prefix, Sep) THEN <<>> ELSE <<Sep>>)

\* the R2 bucket: a set of objects [key, data], one per key
bucketKeys(b) == { o.key : o \in b }
bucketGet(b, k) ==
  IF k \in bucketKeys(b) THEN (CHOOSE o \in b : o.key = k).data ELSE Null
bucketPut(b, k, data) == { o \in b : o.key # k } \cup {[key |-> k, data |-> data]}
bucketDelete(b, k) == { o \in b : o.key # k }
bucketList(b, prefix) == { k \in bucketKeys(b) : startsWith(k, prefix) }

\* the sequences that list a set of keys once each, in some order
Orderings(S) ==
  { q \in [1..Cardinality(S) -> S] : \A i, j \in 1..Cardinality(S) : q[i] = q[j] => i = j }

\* mutant: a missing object is not turned into undefined
load_missIsNull(b, key) == bucketGet(b, keyToString(key))

\* load(key): the object's bytes, or undefined when there is no object
load(b, key) ==
  LET object == bucketGet(b, keyToString(key))
  IN  IF object = Null THEN Undefined ELSE object

\* the store the adapter is used on: documents "d1" and "d10"
D1 == <<"d", "1">>
D10 == <<"d", "1", "0">>
StoreKeys == { <<D1, <<"a">>>>, <<D1, <<"b">>>>, <<D10, <<"a">>>> }
StorePrefixes == { <<D1>>, <<D1, <<>>>> }
Datas == {"x"}

IdleRange ==
  [pc |-> "idle", prefix |-> <<>>, todo |-> <<>>, chunks |-> <<>>,
   listed |-> 0]

Save ==
  \E key \in StoreKeys, data \in Datas :
    /\ bucket' = bucketPut(bucket, keyToString(key), data)
    /\ sinceRemove' = IF rr.pc = "idle" THEN sinceRemove
                      ELSE sinceRemove \cup {keyToString(key)}
    /\ UNCHANGED <<lr, rr, lrAfter, relayVars, keyVars>>

Remove ==
  \E key \in StoreKeys :
    /\ bucket' = bucketDelete(bucket, keyToString(key))
    /\ UNCHANGED <<lr, rr, sinceRemove, lrAfter, relayVars, keyVars>>

\* loadRange up to the completion of bucket.list
LoadRangeList ==
  \E keyPrefix \in StorePrefixes :
    /\ lr.pc \in {"idle", "done"}
    /\ LET prefix == keyToString(keyPrefix)
           objects == bucketList(bucket, loadRangeListOptions(prefix))
       IN  \E todo \in Orderings(objects) :
             lr' = [pc |-> IF Len(todo) = 0 THEN "done" ELSE "loading",
                    prefix |-> keyPrefix, todo |-> todo, chunks |-> <<>>,
                    listed |-> Len(todo)]
    /\ lrAfter' = (rr.pc = "done" /\ rr.prefix = keyPrefix)
    /\ UNCHANGED <<bucket, rr, sinceRemove, relayVars, keyVars>>

\* one turn of loadRange's loop: stringToKey, load, push
LoadRangeLoad ==
  /\ lr.pc = "loading"
  /\ LET key == stringToKey(Head(lr.todo))
         data == load(bucket, key)
         rest == Tail(lr.todo)
     IN  lr' = [lr EXCEPT !.todo = rest,
                          !.chunks = Append(@, [key |-> key, data |-> data]),
                          !.pc = IF Len(rest) = 0 THEN "done" ELSE "loading"]
  /\ UNCHANGED <<bucket, rr, sinceRemove, lrAfter, relayVars, keyVars>>

\* removeRange up to the completion of bucket.list
RemoveRangeList ==
  \E keyPrefix \in StorePrefixes :
    /\ rr.pc \in {"idle", "done"}
    /\ LET prefix == keyToString(keyPrefix)
           objects == bucketList(bucket, removeRangeListOptions(prefix))
       IN  \E todo \in Orderings(objects) :
             rr' = [IdleRange EXCEPT
                      !.pc = IF Len(todo) = 0 THEN "done" ELSE "deleting",
                      !.prefix = keyPrefix, !.todo = todo, !.listed = Len(todo)]
    /\ sinceRemove' = {}
    /\ lrAfter' = FALSE
    /\ UNCHANGED <<bucket, lr, relayVars, keyVars>>

\* one turn of removeRange's loop: bucket.delete
RemoveRangeDelete ==
  /\ rr.pc = "deleting"
  /\ bucket' = bucketDelete(bucket, Head(rr.todo))
  /\ rr' = [rr EXCEPT !.todo = Tail(@),
                      !.pc = IF Len(Tail(rr.todo)) = 0 THEN "done" ELSE "deleting"]
  /\ UNCHANGED <<lr, sinceRemove, lrAfter, relayVars, keyVars>>

StoreInit ==
  /\ bucket = {}
  /\ lr = IdleRange
  /\ rr = IdleRange
  /\ sinceRemove = {}
  /\ lrAfter = FALSE

(***************************************************************************)
(* keyToString / stringToKey on their own                                  *)
(***************************************************************************)
KeyFlatten ==
  /\ kPc = "input"
  /\ kFlat' = keyToString(kIn)
  /\ kPc' = "flat"
  /\ UNCHANGED <<kIn, kOut, relayVars, storeVars>>

KeyUnflatten ==
  /\ kPc = "flat"
  /\ kOut' = stringToKey(kFlat)
  /\ kPc' = "done"
  /\ UNCHANGED <<kIn, kFlat, relayVars, storeVars>>

(***************************************************************************)
(* SyncServer: the handlers of the Durable Object                          *)
(***************************************************************************)
Op(op, ws, message) == [op |-> op, ws |-> ws, message |-> message]
NoMessage == [isString |-> FALSE, bytes |-> Garbage]
FrameOp(op, frame) == Op(op, 0, [isString |-> FALSE, bytes |-> cborEncode(frame)])

SetAdapter(a) ==
  /\ connections' = a.connections
  /\ isConnected' = a.isConnected
  /\ peerId' = a.peerId
  /\ peerMetadata' = a.peerMetadata

\* the WebSocketPair the next upgrade request creates
NextWs == CHOOSE w \in WsIds : readyState[w] = "NONE" /\
             \A v \in WsIds : readyState[v] = "NONE" => w <= v

\* the host's fields, with the fields of the adapter it holds
Host == [repo |-> repo, adapter |-> adapter, built |-> built, a |-> Adapter]

\* new CloudflareWebSocketAdapter()
NewAdapter ==
  [connections |-> <<>>, isConnected |-> FALSE,
   peerId |-> Undefined, peerMetadata |-> Undefined]

\* mutant: no construct-once guard
initializeRepo_constructsAgain(h) ==
  [repo |-> TRUE, adapter |-> TRUE, built |-> h.built + 1, a |-> NewAdapter]

initializeRepo(h) ==
  IF h.repo
    THEN h
    ELSE [repo |-> TRUE, adapter |-> TRUE, built |-> h.built + 1, a |-> NewAdapter]

\* handleWebSocket: accept the server side, initializeRepo, addConnection
handleWebSocket ==
  /\ \E w \in WsIds : readyState[w] = "NONE"
  /\ LET ws == NextWs
         h == initializeRepo(Host)
     IN  /\ readyState' = [readyState EXCEPT ![ws] = READY_STATE_OPEN]
         /\ repo' = h.repo
         /\ adapter' = h.adapter
         /\ built' = h.built
         /\ SetAdapter(addConnection(h.a, ws))
         /\ lastOp' = Op("handleWebSocket", ws, NoMessage)
         /\ out' = <<>>
  /\ UNCHANGED <<waiter, storeVars, keyVars>>

\* the Repo, once constructed, starts its network adapter: adapter.connect
Connect ==
  /\ repo /\ adapter
  /\ peerId = Undefined
  /\ \E id \in SelfIds, meta \in SelfMetadatas :
       /\ SetAdapter(connect(Adapter, id, meta))
       /\ lastOp' = FrameOp("connect", Frame(Undefined, id, Undefined, meta, Undefined))
  /\ out' = <<>>
  /\ UNCHANGED <<repo, adapter, built, waiter, readyState, storeVars, keyVars>>

\* a message event on a transport that still delivers messages
webSocketMessage ==
  \E ws \in WsIds, message \in MessagesIn :
    /\ readyState[ws] \in {READY_STATE_OPEN, "CLOSING_LOCAL"}
    /\ LET r == IF adapter THEN handleMessage(Adapter, ws, message)
                ELSE [a |-> Adapter, out |-> <<>>]
       IN  /\ SetAdapter(r.a)
           /\ out' = r.out
    /\ lastOp' = Op("webSocketMessage", ws, [message EXCEPT !.isString = FALSE])
    /\ UNCHANGED <<repo, adapter, built, waiter, readyState, storeVars, keyVars>>

\* the client closes its side: the transport is no longer open, the close
\* event is still to be delivered
PeerCloses ==
  \E ws \in WsIds :
    /\ readyState[ws] = READY_STATE_OPEN
    /\ readyState' = [readyState EXCEPT ![ws] = "CLOSING_REMOTE"]
    /\ lastOp' = Op("peerCloses", ws, NoMessage)
    /\ out' = <<>>
    /\ UNCHANGED <<repo, adapter, built, waiter, connections, isConnected, peerId, peerMetadata,
                   storeVars, keyVars>>

\* the close event: removeConnection, then ws.close(code, reason)
webSocketClose ==
  \E ws \in WsIds :
    /\ readyState[ws] \in {"CLOSING_REMOTE", "CLOSING_LOCAL"}
    /\ SetAdapter(IF adapter THEN removeConnection(Adapter, ws) ELSE Adapter)
    /\ readyState' = [readyState EXCEPT ![ws] = "CLOSED"]
    /\ lastOp' = Op("webSocketClose", ws, NoMessage)
    /\ out' = (IF adapter THEN <<Removed(ws)>> ELSE <<>>) \o <<Closed(ws)>>
    /\ UNCHANGED <<repo, adapter, built, waiter, storeVars, keyVars>>

\* the error event: logged only
webSocketError ==
  \E ws \in WsIds :
    /\ readyState[ws] \notin {"NONE", "CLOSED"}
    /\ lastOp' = Op("webSocketError", ws, NoMessage)
    /\ out' = <<Logged(ws)>>
    /\ UNCHANGED <<repo, adapter, built, waiter, connections, isConnected, peerId, peerMetadata,
                   readyState, storeVars, keyVars>>

\* the Repo sends a message through the adapter
Send ==
  \E message \in MessagesOut :
    /\ adapter
    /\ out' = send(Adapter, readyState, message)
    /\ lastOp' = FrameOp("send", message)
    /\ UNCHANGED <<repo, adapter, built, waiter, connections, isConnected, peerId, peerMetadata,
                   readyState, storeVars, keyVars>>

\* the Repo disconnects the adapter
Disconnect ==
  /\ adapter
  /\ LET closes == disconnectCloses(Adapter, readyState)
     IN  /\ out' = closes \o <<Emitted("close", NoFrame)>>
         /\ readyState' = [w \in WsIds |->
              IF \E i \in 1..Len(closes) : closes[i].ws = w
                THEN "CLOSING_LOCAL" ELSE readyState[w]]
  /\ SetAdapter(disconnect(Adapter))
  /\ lastOp' = Op("disconnect", 0, NoMessage)
  /\ UNCHANGED <<repo, adapter, built, waiter, storeVars, keyVars>>

\* the Repo asks the adapter to tell it when it is ready
WhenReady ==
  /\ adapter
  /\ waiter = "idle"
  /\ waiter' = whenReady(Adapter)
  /\ lastOp' = Op("whenReady", 0, NoMessage)
  /\ out' = <<>>
  /\ UNCHANGED <<repo, adapter, built, connections, isConnected, peerId, peerMetadata,
                 readyState, storeVars, keyVars>>

\* the interval set by whenReady fires
PollTick ==
  /\ waiter = "polling"
  /\ waiter' = pollTick(Adapter, waiter)
  /\ lastOp' = Op("pollTick", 0, NoMessage)
  /\ out' = <<>>
  /\ UNCHANGED <<repo, adapter, built, connections, isConnected, peerId, peerMetadata,
                 readyState, storeVars, keyVars>>

StoreIdle == StoreInit

KeyIdle ==
  /\ kIn = <<>>
  /\ kFlat = <<>>
  /\ kOut = <<>>
  /\ kPc = "idle"

RelayInit ==
  /\ repo = FALSE
  /\ adapter = FALSE
  /\ built = 0
  /\ waiter = "idle"
  /\ connections = <<>>
  /\ isConnected = FALSE
  /\ peerId = Undefined
  /\ peerMetadata = Undefined
  /\ readyState = [w \in WsIds |-> "NONE"]
  /\ lastOp = Op("constructor", 0, NoMessage)
  /\ out = <<>>

Init == RelayInit /\ StoreIdle /\ KeyIdle

Next ==
  \/ handleWebSocket
  \/ Connect
  \/ webSocketMessage
  \/ PeerCloses
  \/ webSocketClose
  \/ webSocketError
  \/ Send
  \/ Disconnect

Spec == Init /\ [][Next]_vars

\* the relay with a whenReady() call; the interval keeps firing until cleared
NextReady ==
  \/ Next
  \/ WhenReady
  \/ PollTick

SpecReady == Init /\ [][NextReady]_vars /\ WF_vars(PollTick)

InitStore == RelayInit /\ StoreInit /\ KeyIdle

NextStore ==
  \/ Save
  \/ Remove
  \/ LoadRangeList
  \/ LoadRangeLoad
  \/ RemoveRangeList
  \/ RemoveRangeDelete

SpecStore == InitStore /\ [][NextStore]_vars

InitKey ==
  /\ RelayInit
  /\ StoreInit
  /\ kIn \in KeyInputs
  /\ kFlat = <<>>
  /\ kOut = <<>>
  /\ kPc = "input"

NextKey ==
  \/ KeyFlatten
  \/ KeyUnflatten

SpecKey == InitKey /\ [][NextKey]_vars

(***************************************************************************)
(* Properties of the Relay and the Session Host (under Spec)               *)
(***************************************************************************)
Registered == { connections[i].ws : i \in 1..Len(connections) }
Sends(o) == SelectSeq(o, LAMBDA e : e.kind = "send")
Emits(o) == SelectSeq(o, LAMBDA e : e.kind = "emit")
SendsTo(o, ws) == SelectSeq(o, LAMBDA e : e.kind = "send" /\ e.ws = ws)
EverRegistered == \E w \in WsIds : readyState[w] # "NONE"
Bound == peerId # Undefined
MessageOf(op) == cborDecode(op.message.bytes)

\* C1: isReady() is false until both an identity binding and a registration
\* have happened, and once true it turns false only in a step that takes the
\* connection set from non-empty to empty.
C1_Readiness ==
  [][ /\ (IsReady' => (Bound' /\ EverRegistered'))
      /\ ((~Bound \/ ~EverRegistered) => ~IsReady)
      /\ ((IsReady /\ ~IsReady') => (Len(connections) > 0 /\ Len(connections') = 0))
    ]_vars

\* readiness survives the close of one of two connections
C1_Witness ==
  IsReady /\ lastOp.op = "webSocketClose" /\ Len(connections) = 1

\* C2: a send with targetId = B writes the encoded frame to one joined, open
\* connection whose identity is B, when there is one, and to no other connection.
C2_Unicast ==
  (lastOp.op = "send" /\ MessageOf(lastOp).targetId # Undefined) =>
    LET B == MessageOf(lastOp).targetId
        eligible == { w \in Registered :
                        MapGet(connections, w).peerId = B /\ readyState[w] = "OPEN" }
    IN  /\ Len(out) <= 1
        /\ (eligible # {}) => (Len(out) = 1)
        /\ \A i \in 1..Len(out) :
             /\ out[i].kind = "send"
             /\ out[i].ws \in eligible
             /\ out[i].bytes = lastOp.message.bytes

\* joined peers A and B, both open: the frame for B is written to B's connection only
C2_Witness ==
  /\ lastOp.op = "send" /\ MessageOf(lastOp).targetId = "B"
  /\ Len(connections) = 2
  /\ connections[1].peerId = "B" /\ connections[2].peerId = "A"
  /\ readyState[connections[1].ws] = "OPEN" /\ readyState[connections[2].ws] = "OPEN"
  /\ out = <<Sent(connections[1].ws, lastOp.message.bytes)>>

\* C3: a send with no targetId writes the frame exactly once to every registered
\* connection that is joined and open, and nothing to any other transport.
C3_Broadcast ==
  (lastOp.op = "send" /\ MessageOf(lastOp).targetId = Undefined) =>
    /\ \A i \in 1..Len(out) :
         out[i].kind = "send" /\ out[i].bytes = lastOp.message.bytes
    /\ \A w \in WsIds :
         Len(SendsTo(out, w)) =
           IF /\ w \in Registered
              /\ MapGet(connections, w).peerId # Null
              /\ readyState[w] = "OPEN"
             THEN 1 ELSE 0

\* a broadcast with one joined open connection and one unjoined open connection
C3_Witness ==
  /\ lastOp.op = "send" /\ MessageOf(lastOp).targetId = Undefined
  /\ Len(connections) = 2
  /\ connections[1].peerId = Null /\ connections[2].peerId # Null
  /\ readyState[connections[1].ws] = "OPEN" /\ readyState[connections[2].ws] = "OPEN"
  /\ Len(out) = 1

\* C4: a frame that fails to decode, on a registered connection, does not raise
\* past the handler, leaves every record as it was, writes no frame and surfaces
\* nothing to the Merge Engine.
C4_MalformedFrame ==
  [][ (/\ lastOp'.op = "webSocketMessage"
       /\ cborThrows(lastOp'.message.bytes)
       /\ lastOp'.ws \in Registered)
      => /\ connections' = connections
         /\ Sends(out') = <<>>
         /\ Emits(out') = <<>>
         /\ \A i \in 1..Len(out') : out'[i].kind # "throw"
    ]_vars

\* garbage arrived on a connection that had joined
C4_Witness ==
  /\ lastOp.op = "webSocketMessage"
  /\ cborThrows(lastOp.message.bytes)
  /\ lastOp.ws \in Registered
  /\ MapGet(connections, lastOp.ws).peerId = "A"
  /\ MapGet(connections, lastOp.ws).peerMetadata = "m"

\* C5: the identity of a connection record, once set, never changes while the
\* record is registered.
C5_IdentitySetOnce ==
  [][ \A w \in Registered :
        (MapGet(connections, w).peerId # Null /\ MapHas(connections', w))
          => MapGet(connections', w).peerId = MapGet(connections, w).peerId
    ]_vars

\* C6: a join from P handled on a registered connection writes, when the relay's
\* identity is bound, exactly one peer frame, to that connection, carrying
\* selfId, selfMetadata, targetId = P and version "1"; when not bound, no frame.
C6_HandshakeReply ==
  (/\ lastOp.op = "webSocketMessage"
   /\ ~cborThrows(lastOp.message.bytes)
   /\ MessageOf(lastOp).type = "join"
   /\ lastOp.ws \in Registered)
  => IF Bound
       THEN Sends(out) =
              <<Sent(lastOp.ws,
                     cborEncode(Frame("peer", peerId, MessageOf(lastOp).senderId,
                                      peerMetadata, "1")))>>
       ELSE Sends(out) = <<>>

\* a join answered while another connection is registered
C6_Witness ==
  /\ lastOp.op = "webSocketMessage"
  /\ ~cborThrows(lastOp.message.bytes)
  /\ MessageOf(lastOp).type = "join"
  /\ MessageOf(lastOp).peerMetadata = "m"
  /\ lastOp.ws = 2
  /\ Registered = {1, 2}
  /\ Bound
  /\ Len(Sends(out)) = 1

\* a join handled before the relay's identity is bound: no reply
C6_WitnessUnbound ==
  /\ lastOp.op = "webSocketMessage"
  /\ MessageOf(lastOp).type = "join"
  /\ lastOp.ws \in Registered
  /\ ~Bound
  /\ Sends(out) = <<>>

\* C10: the close handler unregisters the transport and then closes it; exactly
\* that record goes, the others stay as they are, the readiness flag clears if
\* and only if no record is left, and no frame is written to that transport
\* afterwards.
C10_CloseStep ==
  (lastOp'.op = "webSocketClose") =>
    LET ws == lastOp'.ws
    IN  /\ out' = <<Removed(ws), Closed(ws)>>
        /\ connections' = SelectSeq(connections, LAMBDA c : c.ws # ws)
        /\ isConnected' = (IF Len(connections') = 0 THEN FALSE ELSE isConnected)
        /\ readyState'[ws] = "CLOSED"

C10_AfterClose ==
  /\ \A w \in Registered : readyState[w] # "CLOSED"
  /\ \A i \in 1..Len(out) :
       out[i].kind = "send" => (out[i].ws \in Registered /\ readyState[out[i].ws] # "CLOSED")

C10_CloseHandling == [][C10_CloseStep]_vars /\ []C10_AfterClose

\* a send after one of two joined connections was closed reaches the other only
C10_Witness ==
  /\ lastOp.op = "send"
  /\ readyState[1] = "CLOSED"
  /\ Registered = {2}
  /\ Len(out) = 1

\* C11: disconnect() closes every registered transport that is open, leaves no
\* connection record, leaves isReady() false and emits one closed notification;
\* a send while no record is registered writes nothing.
C11_DisconnectStep ==
  (lastOp'.op = "disconnect") =>
    /\ \A w \in WsIds :
         Len(SelectSeq(out', LAMBDA e : e.kind = "close" /\ e.ws = w)) =
           IF w \in Registered /\ readyState[w] = "OPEN" THEN 1 ELSE 0
    /\ \A w \in Registered : readyState'[w] # "OPEN"
    /\ connections' = <<>>
    /\ ~IsReady'
    /\ Emits(out') = <<Emitted("close", NoFrame)>>
    /\ Sends(out') = <<>>

C11_SendAfterDisconnect ==
  (lastOp.op = "send" /\ Registered = {}) => out = <<>>

C11_Disconnect == [][C11_DisconnectStep]_vars /\ []C11_SendAfterDisconnect

\* disconnect closed two open transports of a ready relay
C11_Witness ==
  /\ lastOp.op = "disconnect"
  /\ Bound
  /\ Len(SelectSeq(out, LAMBDA e : e.kind = "close")) = 2
  /\ connections = <<>>

\* a send after disconnect, with no record registered
C11_WitnessSend ==
  /\ lastOp.op = "send"
  /\ Registered = {}
  /\ \E w \in WsIds : readyState[w] = "CLOSING_LOCAL"

\* C12: the host constructs its Relay and its Merge Engine once, and every
\* transport it accepted is registered with that Relay.
C12_ConstructOnce ==
  /\ built <= 1
  /\ repo = adapter
  /\ (EverRegistered <=> built = 1)
  /\ (built = 1 <=> adapter)
  /\ \A w \in WsIds : readyState[w] = "OPEN" => w \in Registered

\* two upgrade requests served by the one relay
C12_Witness ==
  /\ built = 1
  /\ Registered = {1, 2}
  /\ readyState[1] = "OPEN" /\ readyState[2] = "OPEN"

\* C13: whenReady() resolves at once when isReady() holds at the call;
\* otherwise it resolves at a tick of its interval at which isReady() holds,
\* never while isReady() is false; if the relay becomes ready and stays ready
\* the wait completes, and if it is never ready the wait never completes.
C13_ResolveStep ==
  /\ (lastOp'.op = "whenReady") =>
       (waiter' = IF IsReady THEN "resolved" ELSE "polling")
  /\ (lastOp'.op = "pollTick") =>
       (waiter' = IF IsReady THEN "resolved" ELSE "polling")
  /\ (waiter # "resolved" /\ waiter' = "resolved") =>
       (IsReady /\ IsReady' /\ lastOp'.op \in {"whenReady", "pollTick"})
  /\ (waiter = "resolved") => (waiter' = "resolved")

C13_AwaitReady ==
  /\ [][C13_ResolveStep]_vars
  /\ (<>[]IsReady => <>[](waiter # "polling"))
  /\ ([]~IsReady => [](waiter # "resolved"))

\* a wait that began before the relay was ready and was resolved by a tick
C13_Witness ==
  /\ waiter = "resolved"
  /\ IsReady
  /\ lastOp.op = "pollTick"

\* C14: a send with a targetId that no registered connection both carries as its
\* identity and is open for is dropped: nothing is thrown, no frame is written
\* to any transport, and the records and the readiness flag stay as they were.
C14_Eligible(B) ==
  { w \in Registered : MapGet(connections, w).peerId = B /\ readyState[w] = "OPEN" }

C14_UnicastDropped ==
  [][ (/\ lastOp'.op = "send"
       /\ MessageOf(lastOp').targetId # Undefined
       /\ C14_Eligible(MessageOf(lastOp').targetId) = {})
      => /\ out' = <<>>
         /\ connections' = connections
         /\ isConnected' = isConnected
         /\ readyState' = readyState
    ]_vars

\* a frame for B while only A is joined and open, and the relay is ready
C14_Witness ==
  /\ lastOp.op = "send" /\ MessageOf(lastOp).targetId = "B"
  /\ \E w \in Registered : MapGet(connections, w).peerId = "A" /\ readyState[w] = "OPEN"
  /\ C14_Eligible("B") = {}
  /\ IsReady
  /\ out = <<>>

\* a frame for B while B's connection is registered but no longer open
C14_WitnessNotOpen ==
  /\ lastOp.op = "send" /\ MessageOf(lastOp).targetId = "B"
  /\ \E w \in Registered : MapGet(connections, w).peerId = "B" /\ readyState[w] # "OPEN"
  /\ C14_Eligible("B") = {}
  /\ out = <<>>

\* C15: no frame is surfaced as an inbound 'message' from a connection that has
\* not joined: whenever a handled frame is emitted as 'message', the record of
\* its connection already carried an identity before the frame was handled.
C15_JoinFirst ==
  [][ (/\ lastOp'.op = "webSocketMessage"
       /\ \E i \in 1..Len(out') : out'[i].kind = "emit" /\ out'[i].name = "message")
      => /\ lastOp'.ws \in Registered
         /\ MapGet(connections, lastOp'.ws).peerId # Null
    ]_vars

\* C16: every join frame decoded on a registered connection yields exactly one
\* 'peer-candidate' notification carrying the join's senderId and its metadata
\* (an empty object when it carries none), emitted after the peer reply when
\* there is one, and emitted whether or not the relay's identity is bound.
C16_Candidate(join) ==
  Emitted("peer-candidate",
          Frame("peer-candidate", join.senderId, Undefined,
                IF join.peerMetadata = Undefined THEN EmptyObject ELSE join.peerMetadata,
                Undefined))

C16_PeerDiscovered ==
  (/\ lastOp.op = "webSocketMessage"
   /\ ~cborThrows(lastOp.message.bytes)
   /\ MessageOf(lastOp).type = "join"
   /\ lastOp.ws \in Registered)
  => /\ Emits(out) = <<C16_Candidate(MessageOf(lastOp))>>
     /\ Len(out) >= 1
     /\ out[Len(out)] = C16_Candidate(MessageOf(lastOp))
     /\ \A i \in 1..(Len(out) - 1) : out[i].kind = "send"
     /\ Len(out) = IF Bound THEN 2 ELSE 1

\* a join without metadata, answered by a bound relay: reply first, then the
\* notification with an empty object
C16_Witness ==
  /\ lastOp.op = "webSocketMessage"
  /\ ~cborThrows(lastOp.message.bytes)
  /\ MessageOf(lastOp).type = "join"
  /\ MessageOf(lastOp).peerMetadata = Undefined
  /\ lastOp.ws \in Registered
  /\ Bound
  /\ Len(out) = 2
  /\ out[1].kind = "send" /\ out[2].kind = "emit"
  /\ cborDecode(out[2].bytes).peerMetadata = EmptyObject

\* a join with metadata handled before the relay's identity is bound
C16_WitnessUnbound ==
  /\ lastOp.op = "webSocketMessage"
  /\ ~cborThrows(lastOp.message.bytes)
  /\ MessageOf(lastOp).type = "join"
  /\ MessageOf(lastOp).peerMetadata = "m"
  /\ lastOp.ws \in Registered
  /\ ~Bound
  /\ out = <<C16_Candidate(MessageOf(lastOp))>>

\* C18: in every reachable state, if the readiness flag is set then at least
\* one connection record exists; hence isReady() implies a bound identity and a
\* non-empty connection set.
C18_FlagNeedsRecord ==
  /\ isConnected => Len(connections) > 0
  /\ IsReady => (Bound /\ Len(connections) > 0)

\* ready again after a disconnect: a transport registered afterwards delivered
\* a frame, while a transport closed by the disconnect is still closing
C18_Witness ==
  /\ IsReady
  /\ Len(connections) = 1
  /\ lastOp.op = "webSocketMessage"
  /\ \E w \in WsIds \ Registered : readyState[w] = "CLOSING_LOCAL"

\* C19: when two registered connections carry the same identity P, a send with
\* targetId = P is written to exactly one of them, the one registered first,
\* and to no other, as long as that one is registered and open.  Transports
\* are numbered in the order of their registration.
C19_Sharing(P) == { w \in Registered : MapGet(connections, w).peerId = P }

C19_FirstRegistered ==
  \A P \in PeerIds :
    (/\ lastOp.op = "send"
     /\ MessageOf(lastOp).targetId = P
     /\ Cardinality(C19_Sharing(P)) >= 2)
    => LET first == CHOOSE w \in C19_Sharing(P) : \A v \in C19_Sharing(P) : w <= v
       IN  readyState[first] = "OPEN" => out = <<Sent(first, lastOp.message.bytes)>>

\* peer A joined on two open transports; the frame for A went to the first
C19_Witness ==
  /\ lastOp.op = "send" /\ MessageOf(lastOp).targetId = "A"
  /\ C19_Sharing("A") = {1, 2}
  /\ readyState[1] = "OPEN" /\ readyState[2] = "OPEN"
  /\ out = <<Sent(1, lastOp.message.bytes)>>

\* C20: a frame arriving on a transport that has no connection record changes
\* nothing: no record is created or modified, the readiness flag is unchanged,
\* no frame is written and nothing is emitted to the Merge Engine.
C20_Step ==
  (lastOp'.op = "webSocketMessage" /\ lastOp'.ws \notin Registered) =>
    /\ connections' = connections
    /\ isConnected' = isConnected
    /\ peerId' = peerId /\ peerMetadata' = peerMetadata
    /\ out' = <<>>

\* the handler applied to any frame on any transport without a record,
\* whether never registered, unregistered by a close event or cleared
C20_Handler ==
  \A ws \in WsIds \ Registered, message \in MessagesIn :
    handleMessage(Adapter, ws, message) = [a |-> Adapter, out |-> <<>>]

C20_NoRecordNoEffect == [][C20_Step]_vars /\ []C20_Handler

\* a join arrived on a transport cleared by disconnect, while another
\* transport is registered with a bound relay whose flag is not set
C20_Witness ==
  /\ lastOp.op = "webSocketMessage"
  /\ lastOp.ws \notin Registered
  /\ readyState[lastOp.ws] = "CLOSING_LOCAL"
  /\ MessageOf(lastOp).type = "join"
  /\ Len(connections) = 1
  /\ Bound /\ ~isConnected
  /\ out = <<>>

(***************************************************************************)
(* Properties of the Storage Adapter (under SpecStore and SpecKey)         *)
(***************************************************************************)
\* the prefix rule: s starts with flatten(p) and a separator boundary follows
Matches(p, s) ==
  LET fp == keyToString(p)
  IN  /\ startsWith(s, fp)
      /\ \/ endsWith(fp, Sep)
         \/ (Len(s) > Len(fp) /\ s[Len(fp) + 1] = Sep)

NoDuplicates(q) == \A i, j \in 1..Len(q) : q[i] = q[j] => i = j
Range(q) == { q[i] : i \in 1..Len(q) }
\* the flat keys of the chunks pushed so far, then the keys still to load
FlatKeysOf(r) == [i \in 1..Len(r.chunks) |-> keyToString(r.chunks[i].key)] \o r.todo
NoSeparatorIn(key) ==
  \A i \in 1..Len(key) : \A j \in 1..Len(key[i]) : key[i][j] # Sep

\* C7: a loadRange(p) that begins after removeRange(p) completed returns no
\* chunk, whatever was saved meanwhile under keys that do not match p.
C7_RangeDeletion ==
  (/\ lr.pc = "done"
   /\ lrAfter
   /\ \A s \in sinceRemove : ~Matches(lr.prefix, s))
  => lr.chunks = <<>>

\* removeRange(["d1"]) deleted objects, ["d10","a"] was saved meanwhile, and
\* loadRange(["d1"]) returned nothing
C7_Witness ==
  /\ lr.pc = "done" /\ lrAfter
  /\ lr.prefix = <<D1>>
  /\ rr.listed = 2
  /\ sinceRemove = {keyToString(<<D10, <<"a">>>>)}
  /\ keyToString(<<D10, <<"a">>>>) \in bucketKeys(bucket)
  /\ lr.chunks = <<>>

\* C8: loadRange(p) lists, once each, exactly the stored keys that match the
\* prefix rule, and returns one chunk for each listed key and no other chunk.
C8_PrefixRule ==
  [][ /\ (lr.pc \in {"idle", "done"} /\ lr' # lr) =>
           /\ NoDuplicates(lr'.todo)
           /\ Range(lr'.todo) = { s \in bucketKeys(bucket) : Matches(lr'.prefix, s) }
           /\ lr'.chunks = <<>>
      /\ (lr.pc = "loading") =>
           /\ FlatKeysOf(lr') = FlatKeysOf(lr)
           /\ (lr' # lr => Len(lr'.chunks) = Len(lr.chunks) + 1)
      /\ (lr'.pc = "done") => lr'.todo = <<>>
    ]_vars

\* with ["d1","a"] and ["d10","a"] stored, loadRange(["d1"]) returned the former only
C8_Witness ==
  /\ lr.pc = "done"
  /\ lr.prefix = <<D1>>
  /\ bucketKeys(bucket) = {keyToString(<<D1, <<"a">>>>), keyToString(<<D10, <<"a">>>>)}
  /\ Len(lr.chunks) = 1
  /\ lr.chunks[1].key = <<D1, <<"a">>>>
  /\ lr.chunks[1].data = "x"

\* C9, as claimed: every key whose segments hold no separator survives
\* keyToString followed by stringToKey.
C9_RoundTripEveryKey ==
  (kPc = "done" /\ NoSeparatorIn(kIn)) => kOut = kIn

\* C9, amended: every key of at least one segment, whose segments hold no
\* separator, survives keyToString followed by stringToKey.
C9_RoundTrip ==
  (kPc = "done" /\ Len(kIn) > 0 /\ NoSeparatorIn(kIn)) => kOut = kIn

\* a key of two segments, one of them empty, came back as it was
C9_Witness ==
  /\ kPc = "done"
  /\ kIn = << <<"a">>, <<>> >>
  /\ kFlat = <<"a", Sep>>
  /\ kOut = kIn

\* C17: when a key listed by loadRange has been deleted before loadRange loads
\* it, loadRange still returns a chunk for that key, with data undefined, and
\* runs to completion with one chunk for every key it listed.
C17_LoadStep ==
  (lr.pc = "loading" /\ lr' # lr) =>
    LET name == Head(lr.todo)
        chunk == lr'.chunks[Len(lr'.chunks)]
    IN  /\ Len(lr'.chunks) = Len(lr.chunks) + 1
        /\ chunk.key = stringToKey(name)
        /\ chunk.data = IF name \in bucketKeys(bucket)
                          THEN bucketGet(bucket, name) ELSE Undefined
        /\ lr'.pc = IF Len(lr.todo) = 1 THEN "done" ELSE "loading"

C17_Complete ==
  (lr.pc = "done") =>
    /\ Len(lr.chunks) = lr.listed
    /\ \A i \in 1..Len(lr.chunks) : lr.chunks[i].data \in Datas \cup {Undefined}

C17_SoftMiss == [][C17_LoadStep]_vars /\ []C17_Complete

\* loadRange listed two keys; one was deleted before its load, the other loaded
C17_Witness ==
  /\ lr.pc = "done"
  /\ Len(lr.chunks) = 2
  /\ \E i, j \in 1..2 :
       /\ lr.chunks[i].data = Undefined
       /\ keyToString(lr.chunks[i].key) \notin bucketKeys(bucket)
       /\ lr.chunks[j].data = "x"

====
